---- MODULE Spec2Model ----
(***************************************************************************)
(* The Chatwoot -> Dialogflow CX webhook bridge of src/app.py.             *)
(*                                                                         *)
(* One handler invocation (chatwoot_webhook) is a small process: it runs   *)
(* local code up to the next blocking remote call, waits for that call to  *)
(* return, and goes on.  The remote calls are the three Chatwoot REST      *)
(* calls (custom_attributes, messages, toggle_status) and the Dialogflow   *)
(* detect_intent call.  Chatwoot's side of the conversation (its status    *)
(* and its user_meta_sent_dialogflow custom attribute) is part of the      *)
(* state: the payload of a webhook event carries a snapshot of it.         *)
(*                                                                         *)
(* Python values: None (and a JSON null) is the empty tuple, any other     *)
(* scalar v is <<v>>; a dict is a function from its keys, so that          *)
(* `k in d` is k \in DOMAIN d and d.get(k) is Get(d, k).                   *)
(***************************************************************************)
EXTENDS Integers, Sequences, FiniteSets, TLC

VARIABLES
    hs,          \* handler invocation -> its locals, its calls so far, its response
    convStatus,  \* Chatwoot: conversation id -> status
    convFlag,    \* Chatwoot: conversation id -> custom attribute user_meta_sent_dialogflow
    sessions,    \* history: the (contact, conversation, session) of every agent query issued
    hist,        \* history: per conversation, the flag-setting calls and status toggles issued
    backend,     \* a backend outcome handed to send_message_to_dialogflow_cx, and its result
    nEvents      \* number of webhook events received so far

vars == <<hs, convStatus, convFlag, sessions, hist, backend, nEvents>>

(***************************** bounds and inputs ***************************)
MaxEvents == 2

Handlers == {"h1", "h2"}
Convs == {42, 43}
SenderIds == {7, 8}
HttpStatuses == {200, 500}

None == <<>>
Some(v) == <<v>>
EmptyDict == <<>>

\* d.get(k) and d.get(k, {})
Get(d, k) == IF k \in DOMAIN d THEN d[k] ELSE None
GetDict(d, k) == IF k \in DOMAIN d THEN d[k] ELSE EmptyDict

\* Python truthiness of an optional string, integer, boolean
TruthyStr(o) == o # None /\ o[1] # ""
TruthyInt(o) == o # None /\ o[1] # 0
TruthyBool(o) == o # None /\ o[1]

\* str() of an optional integer, as an f-string formats it
PyStr(o) == IF o = None THEN "None" ELSE ToString(o[1])

\* An optional key of a dict literal
Key(present, k, v) == IF present THEN k :> v ELSE EmptyDict

AccountOf(c) == IF c = 42 THEN 1 ELSE 2

SenderDicts ==
    { Key(i # None, "id", i) @@ Key(n # "-", "name", Some(n))
        @@ Key(p # "-", "phone_number", Some(p)) @@ Key(e # "-", "email", Some(e)) :
        i \in {None} \cup {Some(s) : s \in SenderIds},
        n \in {"-", "Ana"}, p \in {"-", "+5511999"}, e \in {"-", "", "a@b.com"} }

\* An event about conversation c, carrying c's state at the moment it is sent
ChatwootEvent(c, hc, cv, mt, sd) ==
    Key(hc, "content", cv)
        @@ ("message_type" :> Some(mt))
        @@ ("conversation" :>
                [id |-> Some(c), status |-> Some(convStatus[c]),
                 custom_attributes |->
                     Key(convFlag[c], "user_meta_sent_dialogflow", Some(TRUE))])
        @@ ("sender" :> sd)
        @@ ("account" :> [id |-> Some(AccountOf(c))])

\* The events Chatwoot can send about conversation c in its current state,
\* plus a body that lacks `content`.
EventsOf(c) ==
    { ChatwootEvent(c, hc, cv, mt, sd) :
        hc \in BOOLEAN, cv \in {None, Some("Oi")},
        mt \in {"incoming", "outgoing"}, sd \in SenderDicts }

\* What request.get_json() can return: None, {} or an event
Bodies == {None, Some(EmptyDict)} \cup UNION { {Some(d) : d \in EventsOf(c)} : c \in Convs }

(******************************* the handler ******************************)
chatwoot_url == "CHATWOOT_URL"
Fallback == "Desculpe, não entendi."

Ok200 == [code |-> 200, body |-> [status |-> "success"]]
BadRequest400 == [code |-> 400, body |-> [status |-> "error", message |-> "Invalid request data"]]
\* an exception that leaves the view function: Flask answers 500
Unhandled500 == [code |-> 500, body |-> "Internal Server Error"]

Idle == [pc |-> "idle", request_data |-> None, message |-> None,
         response_text |-> None, end_interaction |-> FALSE,
         calls |-> <<>>, response |-> None]

\* a validation that forgets the `content` key
InvalidRequest_EmptyOnly(body) ==
    \/ body = None
    \/ DOMAIN body[1] = {}

\* line 48: `not request_data or 'content' not in request_data`
InvalidRequest(body) ==
    \/ body = None
    \/ DOMAIN body[1] = {}
    \/ "content" \notin DOMAIN body[1]

\* lines 53-58, 63-64: the extracted fields
message_type(d) == Get(d, "message_type")
content(d) == Get(d, "content")
conversation(d) == Get(GetDict(d, "conversation"), "id")
conversation_status(d) == Get(GetDict(d, "conversation"), "status")
sender_id(d) == Get(GetDict(d, "sender"), "id")
account(d) == Get(GetDict(d, "account"), "id")
user_meta_sent_dialogflow(d) ==
    Get(GetDict(GetDict(d, "conversation"), "custom_attributes"), "user_meta_sent_dialogflow")

\* lines 66-71
contact_info(d) ==
    [contact_id |-> Get(GetDict(d, "sender"), "id"),
     contact_name |-> Get(GetDict(d, "sender"), "name"),
     contact_phone |-> Get(GetDict(d, "sender"), "phone_number"),
     email |-> Get(GetDict(d, "sender"), "email")]

\* `message += s`: a TypeError when message is None
TypeError == <<"raised", "TypeError">>
PlusEq(message, s) ==
    IF message = TypeError \/ message = None THEN TypeError ELSE Some(message[1] \o s)

\* an enrichment that ignores the flag
ShouldEnrich_Always(flag) == TRUE

\* line 73
ShouldEnrich(flag) == ~TruthyBool(flag)

\* an enrichment that appends the phone clause before the name clause
EnrichedMessage_PhoneFirst(message, ci) ==
    LET m1 == IF TruthyStr(ci.contact_phone)
              THEN PlusEq(message, "Meu telefone é " \o ci.contact_phone[1] \o " ")
              ELSE message
        m2 == IF m1 # TypeError /\ TruthyStr(ci.contact_name)
              THEN PlusEq(m1, "Meu nome é " \o ci.contact_name[1] \o " ")
              ELSE m1
        m3 == IF m2 # TypeError /\ TruthyStr(ci.email)
              THEN PlusEq(m2, "Meu email é " \o ci.email[1] \o " ")
              ELSE m2
    IN  m3

\* lines 74-79
EnrichedMessage(message, ci) ==
    LET m1 == IF TruthyStr(ci.contact_name)
              THEN PlusEq(message, "Meu nome é " \o ci.contact_name[1] \o " ")
              ELSE message
        m2 == IF m1 # TypeError /\ TruthyStr(ci.contact_phone)
              THEN PlusEq(m1, "Meu telefone é " \o ci.contact_phone[1] \o " ")
              ELSE m1
        m3 == IF m2 # TypeError /\ TruthyStr(ci.email)
              THEN PlusEq(m2, "Meu email é " \o ci.email[1] \o " ")
              ELSE m2
    IN  m3

\* lines 196-212: the custom_attributes POST, or nothing when no attribute is truthy
AttrCalls(acc, conv, custom_attributes) ==
    LET valid == { k \in DOMAIN custom_attributes : custom_attributes[k] }
    IN  IF valid = {} THEN <<>>
        ELSE << [kind |-> "custom_attributes",
                 url |-> chatwoot_url \o "/api/v1/accounts/" \o PyStr(acc)
                         \o "/conversations/" \o PyStr(conv) \o "/custom_attributes",
                 payload |-> [custom_attributes |-> [k \in valid |-> custom_attributes[k]]],
                 ret |-> None] >>

\* lines 179-194: the messages POST
MessageCall(acc, conv, response_message, private) ==
    [kind |-> "messages",
     url |-> chatwoot_url \o "/api/v1/accounts/" \o PyStr(acc)
             \o "/conversations/" \o PyStr(conv) \o "/messages",
     payload |-> [content |-> response_message, message_type |-> "outgoing",
                  private |-> private],
     ret |-> None]

\* lines 214-226: the toggle_status POST
StatusCall(acc, conv, status) ==
    [kind |-> "toggle_status",
     url |-> chatwoot_url \o "/api/v1/accounts/" \o PyStr(acc)
             \o "/conversations/" \o PyStr(conv) \o "/toggle_status",
     payload |-> [status |-> status],
     ret |-> None]

\* a session keyed by the conversation instead of the sender
SessionId_ByConversation(d) == "session_" \o PyStr(conversation(d))

\* line 87
SessionId(d) == "session_" \o PyStr(sender_id(d))

\* lines 104-148: the detect_intent request
QueryCall(session_id, message, d) ==
    [kind |-> "detect_intent",
     session_id |-> session_id,
     text |-> message,
     language_code |-> "pt-br",
     parameters |-> [contact_info |-> contact_info(d),
                     browser_info |-> GetDict(GetDict(GetDict(d, "conversation"),
                                              "additional_attributes"), "browser")],
     ret |-> None]

\* an eligibility test that forgets the conversation status
IsEligible_AnyStatus(d) ==
    /\ message_type(d) = Some("incoming")
    /\ TruthyInt(sender_id(d))

\* line 85
IsEligible(d) ==
    /\ message_type(d) = Some("incoming")
    /\ TruthyInt(sender_id(d))
    /\ conversation_status(d) = Some("pending")

\* lines 85-88, 101: issue the agent query for an eligible event, else acknowledge
Line85(r) ==
    LET d == r.request_data[1]
    IN  IF IsEligible(d)
        THEN [r EXCEPT !.pc = "query",
                       !.calls = Append(@, QueryCall(SessionId(d), r.message, d))]
        ELSE [r EXCEPT !.pc = "done", !.response = Some(Ok200)]

\* a handler that does not wait for the custom_attributes POST to return
Start_NoWait(body) ==
    IF InvalidRequest(body)
    THEN [Idle EXCEPT !.pc = "done", !.request_data = body,
                      !.response = Some(BadRequest400)]
    ELSE LET d == body[1]
             r0 == [Idle EXCEPT !.request_data = body, !.message = content(d)]
         IN  IF ShouldEnrich(user_meta_sent_dialogflow(d))
             THEN LET m == EnrichedMessage(r0.message, contact_info(d))
                      cs == AttrCalls(account(d), conversation(d),
                                      [user_meta_sent_dialogflow |-> TRUE])
                  IN  IF m = TypeError
                      THEN [r0 EXCEPT !.pc = "done", !.response = Some(Unhandled500)]
                      ELSE Line85([r0 EXCEPT !.message = m, !.calls = cs])
             ELSE Line85(r0)

\* lines 44-82: validation, extraction, enrichment, up to the first remote call
Start(body) ==
    IF InvalidRequest(body)
    THEN [Idle EXCEPT !.pc = "done", !.request_data = body,
                      !.response = Some(BadRequest400)]
    ELSE LET d == body[1]
             r0 == [Idle EXCEPT !.request_data = body, !.message = content(d)]
         IN  IF ShouldEnrich(user_meta_sent_dialogflow(d))
             THEN LET m == EnrichedMessage(r0.message, contact_info(d))
                      cs == AttrCalls(account(d), conversation(d),
                                      [user_meta_sent_dialogflow |-> TRUE])
                  IN  IF m = TypeError
                      THEN [r0 EXCEPT !.pc = "done", !.response = Some(Unhandled500)]
                      ELSE IF cs = <<>>
                           THEN Line85([r0 EXCEPT !.message = m])
                           ELSE [r0 EXCEPT !.message = m, !.pc = "attr", !.calls = cs]
             ELSE Line85(r0)

(**************************** the dialogue agent ***************************)
MaxMsgs == 2

\* One response message as MessageToDict renders it
ResponseMessages ==
    { Key(t # "-", "text", Key(t # "[]", "text", <<t>>))
        @@ Key(e, "endInteraction", EmptyDict) :
        t \in {"-", "[]", "Olá!"}, e \in BOOLEAN }

MessageLists == UNION { [1..n -> ResponseMessages] : n \in 0..MaxMsgs }

QueryResults ==
    { Key(p # "-", "parameters", Key(p # "{}", "execution_summary", p))
        @@ Key(ms # <<>>, "responseMessages", ms) :
        p \in {"-", "{}", "Resumo"}, ms \in MessageLists }

\* detect_intent raises, or returns a response (with or without a queryResult)
AgentOutcomes ==
    {[raised |-> TRUE]}
        \cup {[raised |-> FALSE, response_dict |-> EmptyDict]}
        \cup {[raised |-> FALSE, response_dict |-> ("queryResult" :> qr)] : qr \in QueryResults}

\* a parse that ignores execution_summary when there is no response message
ParseResponse_NoSummary(response_dict) ==
    IF "queryResult" \notin DOMAIN response_dict
    THEN [raised |-> "KeyError", response_text |-> "", end_interaction |-> FALSE]
    ELSE LET qr == response_dict["queryResult"]
             fulfillment_text ==
                 IF "parameters" \in DOMAIN qr
                    /\ "execution_summary" \in DOMAIN qr["parameters"]
                 THEN qr["parameters"]["execution_summary"]
                 ELSE Fallback
         IN  IF "responseMessages" \in DOMAIN qr
             THEN LET first_message == qr["responseMessages"][1]
                  IN  [raised |-> "",
                       response_text |->
                           IF "text" \in DOMAIN first_message
                              /\ "text" \in DOMAIN first_message["text"]
                           THEN first_message["text"]["text"][1]
                           ELSE fulfillment_text,
                       end_interaction |-> "endInteraction" \in DOMAIN first_message]
             ELSE [raised |-> "", response_text |-> Fallback,
                   end_interaction |-> FALSE]

\* a parse that looks for the end-interaction marker on every response message
ParseResponse_AnyMarker(response_dict) ==
    IF "queryResult" \notin DOMAIN response_dict
    THEN [raised |-> "KeyError", response_text |-> "", end_interaction |-> FALSE]
    ELSE LET qr == response_dict["queryResult"]
             fulfillment_text ==
                 IF "parameters" \in DOMAIN qr
                    /\ "execution_summary" \in DOMAIN qr["parameters"]
                 THEN qr["parameters"]["execution_summary"]
                 ELSE Fallback
         IN  IF "responseMessages" \in DOMAIN qr
             THEN LET first_message == qr["responseMessages"][1]
                  IN  [raised |-> "",
                       response_text |->
                           IF "text" \in DOMAIN first_message
                              /\ "text" \in DOMAIN first_message["text"]
                           THEN first_message["text"]["text"][1]
                           ELSE fulfillment_text,
                       end_interaction |->
                           \E i \in DOMAIN qr["responseMessages"] :
                               "endInteraction" \in DOMAIN qr["responseMessages"][i]]
             ELSE [raised |-> "", response_text |-> fulfillment_text,
                   end_interaction |-> FALSE]

\* a parse that lets execution_summary override the text of the first message
ParseResponse_SummaryFirst(response_dict) ==
    IF "queryResult" \notin DOMAIN response_dict
    THEN [raised |-> "KeyError", response_text |-> "", end_interaction |-> FALSE]
    ELSE LET qr == response_dict["queryResult"]
             has_summary == "parameters" \in DOMAIN qr
                            /\ "execution_summary" \in DOMAIN qr["parameters"]
             fulfillment_text ==
                 IF has_summary THEN qr["parameters"]["execution_summary"] ELSE Fallback
         IN  IF "responseMessages" \in DOMAIN qr
             THEN LET first_message == qr["responseMessages"][1]
                  IN  [raised |-> "",
                       response_text |->
                           IF ~has_summary /\ "text" \in DOMAIN first_message
                              /\ "text" \in DOMAIN first_message["text"]
                           THEN first_message["text"]["text"][1]
                           ELSE fulfillment_text,
                       end_interaction |-> "endInteraction" \in DOMAIN first_message]
             ELSE [raised |-> "", response_text |-> fulfillment_text,
                   end_interaction |-> FALSE]

\* lines 153-177: (response_text, end_interaction); a KeyError without queryResult
ParseResponse(response_dict) ==
    IF "queryResult" \notin DOMAIN response_dict
    THEN [raised |-> "KeyError", response_text |-> "", end_interaction |-> FALSE]
    ELSE LET qr == response_dict["queryResult"]
             fulfillment_text ==
                 IF "parameters" \in DOMAIN qr
                    /\ "execution_summary" \in DOMAIN qr["parameters"]
                 THEN qr["parameters"]["execution_summary"]
                 ELSE Fallback
         IN  IF "responseMessages" \in DOMAIN qr
             THEN LET first_message == qr["responseMessages"][1]
                  IN  [raised |-> "",
                       response_text |->
                           IF "text" \in DOMAIN first_message
                              /\ "text" \in DOMAIN first_message["text"]
                           THEN first_message["text"]["text"][1]
                           ELSE fulfillment_text,
                       end_interaction |-> "endInteraction" \in DOMAIN first_message]
             ELSE [raised |-> "", response_text |-> fulfillment_text,
                   end_interaction |-> FALSE]

\* lines 104-177: what send_message_to_dialogflow_cx does with the backend's outcome:
\* the exception of detect_intent propagates, a response is parsed
send_message_to_dialogflow_cx(outcome) ==
    IF outcome.raised
    THEN [raised |-> "detect_intent", response_text |-> "", end_interaction |-> FALSE]
    ELSE ParseResponse(outcome.response_dict)

\* every result the call can have, over all outcomes of the backend
AgentResults == { send_message_to_dialogflow_cx(o) : o \in AgentOutcomes }

\* a reply that is public on either branch
ReplyCall_AlwaysPublic(d, response_text, end_interaction) ==
    MessageCall(account(d), conversation(d), response_text, FALSE)

\* lines 91-97: the reply, public or (on end of interaction) private
ReplyCall(d, response_text, end_interaction) ==
    IF ~end_interaction
    THEN MessageCall(account(d), conversation(d), response_text, FALSE)
    ELSE MessageCall(account(d), conversation(d), response_text, TRUE)

\* the last call of a handler returns with HTTP status st
Returned(calls, st) == [calls EXCEPT ![Len(calls)].ret = Some(st)]

\* a handler that catches the failure of the agent query and replies the fallback
AfterQuery_Swallow(r, res) ==
    IF res.raised # ""
    THEN [r EXCEPT !.pc = "post",
                   !.response_text = Some(Fallback),
                   !.calls = Append(Returned(@, 0),
                       ReplyCall(r.request_data[1], Fallback, FALSE))]
    ELSE [r EXCEPT !.pc = "post",
                   !.response_text = Some(res.response_text),
                   !.end_interaction = res.end_interaction,
                   !.calls = Append(Returned(@, 200),
                       ReplyCall(r.request_data[1], res.response_text,
                                 res.end_interaction))]

\* lines 88-97: an exception of the agent query leaves the handler (no try/except);
\* a result is unpacked and the reply posted
AfterQuery(r, res) ==
    IF res.raised # ""
    THEN [r EXCEPT !.pc = "done", !.calls = Returned(@, 0),
                   !.response = Some(Unhandled500)]
    ELSE [r EXCEPT !.pc = "post",
                   !.response_text = Some(res.response_text),
                   !.end_interaction = res.end_interaction,
                   !.calls = Append(Returned(@, 200),
                       ReplyCall(r.request_data[1], res.response_text,
                                 res.end_interaction))]

\* a handler that toggles the status on either branch
AfterReply_AlwaysToggle(r) ==
    LET d == r.request_data[1]
    IN  [r EXCEPT !.pc = "toggle",
                  !.calls = Append(@, StatusCall(account(d), conversation(d), "open"))]

\* lines 98-101: after the reply, hand over to a human on end of interaction
AfterReply(r) ==
    LET d == r.request_data[1]
    IN  IF r.end_interaction
        THEN [r EXCEPT !.pc = "toggle",
                       !.calls = Append(@, StatusCall(account(d), conversation(d), "open"))]
        ELSE [r EXCEPT !.pc = "done", !.response = Some(Ok200)]

(********************************* actions *********************************)
\* the agent queries among the calls of r, as (contact, conversation, session)
SessionsOf(r) ==
    { [contact_id |-> r.calls[i].parameters.contact_info.contact_id,
       conversation |-> conversation(r.request_data[1]),
       session_id |-> r.calls[i].session_id] :
      i \in { j \in 1..Len(r.calls) : r.calls[j].kind = "detect_intent" } }

\* the calls of one kind for conversation c that the step from old to new has issued
Issued(old, new, k, c) ==
    Cardinality({ i \in (Len(old.calls) + 1)..Len(new.calls) :
                    /\ new.calls[i].kind = k
                    /\ conversation(new.request_data[1]) = Some(c) })

\* the history after the step of one invocation from old to new
Recorded(old, new) ==
    [flagCalls |-> [c \in Convs |->
                      hist.flagCalls[c] + Issued(old, new, "custom_attributes", c)],
     toggles |-> [c \in Convs |->
                    hist.toggles[c] + Issued(old, new, "toggle_status", c)]]

\* Chatwoot applies a 2xx custom_attributes / toggle_status call
Is2xx(st) == st \in 200..299

\* no invocation is running
NoneRunning == \A g \in Handlers : hs[g].pc = "idle"

\* a server that takes up an event only when no other invocation is running
Receive_Serialized(h, body) ==
    /\ NoneRunning
    /\ nEvents < MaxEvents
    /\ nEvents' = nEvents + 1
    /\ hs' = [hs EXCEPT ![h] = Start(body)]
    /\ sessions' = sessions \cup SessionsOf(hs'[h])
    /\ hist' = Recorded(hs[h], hs'[h])
    /\ UNCHANGED <<convStatus, convFlag, backend>>

\* A webhook event arrives and the handler runs to its first remote call
Receive(h, body) ==
    /\ hs[h].pc = "idle"
    /\ nEvents < MaxEvents
    /\ nEvents' = nEvents + 1
    /\ hs' = [hs EXCEPT ![h] = Start(body)]
    /\ sessions' = sessions \cup SessionsOf(hs'[h])
    /\ hist' = Recorded(hs[h], hs'[h])
    /\ UNCHANGED <<convStatus, convFlag, backend>>

\* The custom_attributes POST returns (line 210); the handler goes on at line 85
AttrReturn(h, st) ==
    /\ hs[h].pc = "attr"
    /\ LET c == conversation(hs[h].request_data[1])
       IN  convFlag' = IF Is2xx(st) /\ c # None /\ c[1] \in Convs
                       THEN [convFlag EXCEPT ![c[1]] = TRUE]
                       ELSE convFlag
    /\ hs' = [hs EXCEPT ![h] = Line85([@ EXCEPT !.calls = Returned(@, st)])]
    /\ sessions' = sessions \cup SessionsOf(hs'[h])
    /\ hist' = Recorded(hs[h], hs'[h])
    /\ UNCHANGED <<convStatus, backend, nEvents>>

\* send_message_to_dialogflow_cx returns res or raises (line 88); the reply is posted
QueryReturn(h, res) ==
    /\ hs[h].pc = "query"
    /\ hs' = [hs EXCEPT ![h] = AfterQuery(@, res)]
    /\ hist' = Recorded(hs[h], hs'[h])
    /\ UNCHANGED <<convStatus, convFlag, sessions, backend, nEvents>>

\* The messages POST returns (line 193)
PostReturn(h, st) ==
    /\ hs[h].pc = "post"
    /\ hs' = [hs EXCEPT ![h] = AfterReply([@ EXCEPT !.calls = Returned(@, st)])]
    /\ hist' = Recorded(hs[h], hs'[h])
    /\ UNCHANGED <<convStatus, convFlag, sessions, backend, nEvents>>

\* The toggle_status POST returns (line 224); the handler acknowledges
ToggleReturn(h, st) ==
    /\ hs[h].pc = "toggle"
    /\ LET c == conversation(hs[h].request_data[1])
           call == hs[h].calls[Len(hs[h].calls)]
       IN  convStatus' = IF Is2xx(st) /\ c # None /\ c[1] \in Convs
                         THEN [convStatus EXCEPT ![c[1]] = call.payload.status]
                         ELSE convStatus
    /\ hs' = [hs EXCEPT ![h] = [@ EXCEPT !.pc = "done", !.calls = Returned(@, st),
                                         !.response = Some(Ok200)]]
    /\ UNCHANGED <<convFlag, sessions, hist, backend, nEvents>>

\* The response has been sent; the invocation is over
Release(h) ==
    /\ hs[h].pc = "done"
    /\ hs' = [hs EXCEPT ![h] = Idle]
    /\ UNCHANGED <<convStatus, convFlag, sessions, hist, backend, nEvents>>

Init ==
    /\ hs = [h \in Handlers |-> Idle]
    /\ convStatus = [c \in Convs |-> "pending"]
    /\ convFlag = [c \in Convs |-> FALSE]
    /\ sessions = {}
    /\ hist = [flagCalls |-> [c \in Convs |-> 0], toggles |-> [c \in Convs |-> 0]]
    /\ backend = None
    /\ nEvents = 0

\* One event at a time: a new event is taken up when no invocation is running
Next ==
    \E h \in Handlers :
        \/ NoneRunning /\ h = "h1" /\ \E body \in Bodies : Receive(h, body)
        \/ \E st \in HttpStatuses : AttrReturn(h, st)
        \/ \E res \in AgentResults : QueryReturn(h, res)
        \/ \E st \in HttpStatuses : PostReturn(h, st)
        \/ \E st \in HttpStatuses : ToggleReturn(h, st)
        \/ Release(h)

Spec == Init /\ [][Next]_vars

(************************** concurrent invocations **************************)
\* The server runs invocations concurrently and nothing orders them: an event
\* is taken up by any free invocation while others wait on their remote calls.
\* The events are text messages of one contact, incoming or outgoing, each
\* carrying the conversation's state at the moment it is sent.
ConcEventsOf(c) ==
    { ChatwootEvent(c, TRUE, Some("Oi"), mt, [id |-> Some(7), name |-> Some("Ana")]) :
        mt \in {"incoming", "outgoing"} }

ConcBodies == UNION { {Some(d) : d \in ConcEventsOf(c)} : c \in Convs }

NextConc ==
    \E h \in Handlers :
        \/ \E body \in ConcBodies : Receive(h, body)
        \/ \E st \in HttpStatuses : AttrReturn(h, st)
        \/ \E res \in AgentResults : QueryReturn(h, res)
        \/ \E st \in HttpStatuses : PostReturn(h, st)
        \/ \E st \in HttpStatuses : ToggleReturn(h, st)
        \/ Release(h)

SpecConc == Init /\ [][NextConc]_vars

(************ send_message_to_dialogflow_cx on its own (the parse) ***********)
\* Response messages with no text, an empty text, one or two text segments
ParseMessages ==
    { Key(ht, "text", Key(tl # <<>>, "text", tl)) @@ Key(e, "endInteraction", EmptyDict) :
        ht \in BOOLEAN, tl \in {<<>>, <<"Olá!">>, <<"Tchau", "Olá!">>}, e \in BOOLEAN }

ParseMessageLists == UNION { [1..n -> ParseMessages] : n \in 0..MaxMsgs }

ParseOutcomes ==
    {[raised |-> TRUE]}
        \cup {[raised |-> FALSE, response_dict |-> EmptyDict]}
        \cup { [raised |-> FALSE,
                response_dict |->
                    ("queryResult" :>
                        (Key(p # "-", "parameters", Key(p # "{}", "execution_summary", p))
                            @@ Key(ms # <<>>, "responseMessages", ms)))] :
               p \in {"-", "{}", "Resumo"}, ms \in ParseMessageLists }

\* the backend has answered a query with some outcome
InitParse ==
    /\ hs = [h \in Handlers |-> Idle]
    /\ convStatus = [c \in Convs |-> "pending"]
    /\ convFlag = [c \in Convs |-> FALSE]
    /\ sessions = {}
    /\ hist = [flagCalls |-> [c \in Convs |-> 0], toggles |-> [c \in Convs |-> 0]]
    /\ backend \in { [outcome |-> o, result |-> None] : o \in ParseOutcomes }
    /\ nEvents = 0

\* lines 146-177: the outcome is turned into (response_text, end_interaction)
ParseStep ==
    /\ backend # None
    /\ backend.result = None
    /\ backend' = [backend EXCEPT !.result = Some(send_message_to_dialogflow_cx(backend.outcome))]
    /\ UNCHANGED <<hs, convStatus, convFlag, sessions, hist, nEvents>>

NextParse == ParseStep

ParseSpec == InitParse /\ [][NextParse]_vars

\* the backend's response has a queryResult and has been parsed
Parsed ==
    /\ backend # None
    /\ backend.result # None
    /\ ~backend.outcome.raised
    /\ "queryResult" \in DOMAIN backend.outcome.response_dict

ParsedQR == backend.outcome.response_dict["queryResult"]
ParsedMsgs ==
    IF "responseMessages" \in DOMAIN ParsedQR THEN ParsedQR["responseMessages"] ELSE <<>>
ParsedHasSummary ==
    "parameters" \in DOMAIN ParsedQR /\ "execution_summary" \in DOMAIN ParsedQR["parameters"]
MsgHasText(m) == "text" \in DOMAIN m /\ "text" \in DOMAIN m["text"]
MsgHasMarker(m) == "endInteraction" \in DOMAIN m

(************************* vocabulary of the claims *************************)
\* the event of invocation h has the `content` field
HasContent(h) ==
    /\ hs[h].request_data # None
    /\ "content" \in DOMAIN hs[h].request_data[1]

Event(h) == hs[h].request_data[1]

\* an eligible event, as the specification words it: an incoming message with a
\* sender id, of a pending conversation
EventEligible(d) ==
    /\ Get(d, "message_type") = Some("incoming")
    /\ Get(GetDict(d, "sender"), "id") # None
    /\ Get(GetDict(d, "conversation"), "status") = Some("pending")

\* the event says the enrichment flag is set
EventFlagSet(d) ==
    LET ca == GetDict(GetDict(d, "conversation"), "custom_attributes")
    IN  "user_meta_sent_dialogflow" \in DOMAIN ca /\ ca["user_meta_sent_dialogflow"] = Some(TRUE)

\* the positions of the calls of one kind among the calls of invocation h
CallsOfKind(h, k) == { i \in 1..Len(hs[h].calls) : hs[h].calls[i].kind = k }

\* the agent query of invocation h has returned a result
GotAgentResult(h) == hs[h].response_text # None

\* the agent query of invocation h has failed
QueryFailed(h) ==
    \E i \in CallsOfKind(h, "detect_intent") : hs[h].calls[i].ret = Some(0)

UrlOf(acc, conv, what) ==
    "CHATWOOT_URL/api/v1/accounts/" \o acc \o "/conversations/" \o conv \o "/" \o what

(********************************** claims *********************************)
\* C1: an event that has `content` and is ineligible (not incoming, or no
\* sender id, or not pending) causes no outbound call at all and is answered
\* 200 success.  (The code issues the custom_attributes call before it looks at
\* eligibility, so this fails.)
C1_IneligibleNoOutboundCall ==
    \A h \in Handlers :
        (hs[h].pc # "idle" /\ HasContent(h) /\ ~EventEligible(Event(h)))
            => /\ hs[h].calls = <<>>
               /\ hs[h].pc = "done"
               /\ hs[h].response = Some([code |-> 200, body |-> [status |-> "success"]])

\* C2: once the agent result of an eligible event says end of interaction, the
\* handler posts exactly one message, private, carrying the reply text; the
\* toggle to `open` comes after that post has returned; no public message.
C2_EscalationRouting ==
    \A h \in Handlers :
        LET r == hs[h]
            posts == CallsOfKind(h, "messages")
            toggles == CallsOfKind(h, "toggle_status")
        IN  (GotAgentResult(h) /\ r.end_interaction)
                => /\ EventEligible(Event(h))
                   /\ Cardinality(posts) = 1
                   /\ \A i \in posts :
                          /\ r.calls[i].payload.private = TRUE
                          /\ r.calls[i].payload.content = r.response_text[1]
                          /\ r.calls[i].payload.message_type = "outgoing"
                   /\ Cardinality(toggles) <= 1
                   /\ \A j \in toggles :
                          /\ r.calls[j].payload.status = "open"
                          /\ \E i \in posts : i < j /\ r.calls[i].ret # None
                   /\ (r.pc = "done" => Cardinality(toggles) = 1)

C2_Witness ==
    \E h \in Handlers :
        /\ hs[h].pc = "done"
        /\ GotAgentResult(h) /\ hs[h].end_interaction
        /\ CallsOfKind(h, "toggle_status") # {}
        /\ \E i \in CallsOfKind(h, "messages") : hs[h].calls[i].payload.private

\* C3: once the agent result of an eligible event says no end of interaction,
\* exactly one agent query and exactly one message post have been issued, the
\* post is public, and no status toggle is issued.
C3_NonEscalationRouting ==
    \A h \in Handlers :
        LET r == hs[h]
            posts == CallsOfKind(h, "messages")
        IN  (GotAgentResult(h) /\ ~r.end_interaction)
                => /\ EventEligible(Event(h))
                   /\ Cardinality(CallsOfKind(h, "detect_intent")) = 1
                   /\ Cardinality(posts) = 1
                   /\ \A i \in posts :
                          /\ r.calls[i].payload.private = FALSE
                          /\ r.calls[i].payload.content = r.response_text[1]
                   /\ CallsOfKind(h, "toggle_status") = {}

C3_Witness ==
    \E h \in Handlers :
        /\ hs[h].pc = "done"
        /\ GotAgentResult(h) /\ ~hs[h].end_interaction
        /\ hs[h].response = Some(Ok200)
        /\ \E i \in CallsOfKind(h, "messages") : ~hs[h].calls[i].payload.private

\* C4: an event whose conversation has user_meta_sent_dialogflow truthy gets no
\* enrichment text (the text for the agent is the original content) and no
\* custom_attributes call, whatever contact fields it carries.
C4_FlagSetNoEnrichment ==
    \A h \in Handlers :
        (hs[h].pc # "idle" /\ HasContent(h) /\ EventFlagSet(Event(h)))
            => /\ hs[h].message = Event(h)["content"]
               /\ CallsOfKind(h, "custom_attributes") = {}
               /\ \A i \in CallsOfKind(h, "detect_intent") :
                      hs[h].calls[i].text = Event(h)["content"]

C4_Witness ==
    \E h \in Handlers :
        /\ HasContent(h) /\ EventFlagSet(Event(h))
        /\ Get(Event(h)["sender"], "name") = Some("Ana")
        /\ Get(Event(h)["sender"], "phone_number") # None
        /\ Get(Event(h)["sender"], "email") = Some("a@b.com")
        /\ CallsOfKind(h, "detect_intent") # {}
        /\ hs[h].pc = "done"

\* C5: an event without `content` (an absent or empty body included) is
\* answered exactly 400 {"status":"error","message":"Invalid request data"}
\* and causes no remote call.
C5_MissingContentRejected ==
    \A h \in Handlers :
        (hs[h].pc # "idle" /\ ~HasContent(h))
            => /\ hs[h].pc = "done"
               /\ hs[h].response =
                      Some([code |-> 400,
                            body |-> [status |-> "error", message |-> "Invalid request data"]])
               /\ hs[h].calls = <<>>

C5_Witness ==
    \E h \in Handlers :
        /\ hs[h].pc = "done"
        /\ hs[h].request_data # None
        /\ "sender" \in DOMAIN hs[h].request_data[1]
        /\ "content" \notin DOMAIN hs[h].request_data[1]
        /\ hs[h].response # None /\ hs[h].response[1].code = 400

\* C6: an event that has `content`, whatever its value and the other fields,
\* is answered 200 {"status":"success"} unless the agent query fails, whatever
\* the helpdesk calls return.  (A null `content` with a contact field to
\* append raises a TypeError, so this fails.)
C6_ContentAlwaysAcknowledged ==
    \A h \in Handlers :
        (hs[h].pc = "done" /\ HasContent(h) /\ ~QueryFailed(h))
            => hs[h].response = Some([code |-> 200, body |-> [status |-> "success"]])

\* C7: every toggle_status call carries `open` and is issued while handling an
\* event whose conversation.status is `pending`; the conversation status only
\* ever goes from pending to open.
C7_OnlyPendingToOpen ==
    /\ \A h \in Handlers :
           \A j \in CallsOfKind(h, "toggle_status") :
               /\ hs[h].calls[j].payload.status = "open"
               /\ Get(GetDict(Event(h), "conversation"), "status") = Some("pending")
    /\ \A c \in Convs : convStatus[c] \in {"pending", "open"}

C7_Witness ==
    \E h \in Handlers :
        /\ CallsOfKind(h, "toggle_status") # {}
        /\ hs[h].pc = "done"
        /\ convStatus[Event(h)["conversation"].id[1]] = "open"

\* C8: two agent queries for events with the same sender.id use the same
\* session id, whatever the conversation, account, content or enrichment state.
C8_SessionBySender ==
    \A p, q \in sessions :
        p.contact_id = q.contact_id => p.session_id = q.session_id

C8_Witness ==
    \E p, q \in sessions :
        /\ p.contact_id = q.contact_id
        /\ p.conversation # q.conversation
        /\ p.session_id = "session_7"

\* C9: with the flag unset, the text sent to the agent is the original content
\* followed by one clause per present (non-empty) contact field, in the order
\* name, phone, email, each once; no clause for an absent or empty field.
C9Clause(prefix, o) == IF o = None \/ o[1] = "" THEN "" ELSE prefix \o o[1] \o " "

C9_EnrichmentOrder ==
    \A h \in Handlers :
        (HasContent(h) /\ ~EventFlagSet(Event(h)))
            => \A i \in CallsOfKind(h, "detect_intent") :
                   LET sd == GetDict(Event(h), "sender")
                       clauses == C9Clause("Meu nome é ", Get(sd, "name"))
                                  \o C9Clause("Meu telefone é ", Get(sd, "phone_number"))
                                  \o C9Clause("Meu email é ", Get(sd, "email"))
                       text == hs[h].calls[i].text
                   IN  /\ Event(h)["content"] = None => text = None
                       /\ Event(h)["content"] # None
                              => text = Some(Event(h)["content"][1] \o clauses)
                       /\ (Get(sd, "name") = Some("Ana") /\ Get(sd, "phone_number") = Some("+5511999")
                             /\ Get(sd, "email") = Some("a@b.com"))
                              => text = Some(Event(h)["content"][1]
                                     \o "Meu nome é Ana Meu telefone é +5511999 Meu email é a@b.com ")

C9_Witness ==
    \E h \in Handlers :
        /\ HasContent(h) /\ ~EventFlagSet(Event(h))
        /\ CallsOfKind(h, "detect_intent") # {}
        /\ DOMAIN Event(h)["sender"] = {"id", "name", "phone_number", "email"}
        /\ Event(h)["sender"]["email"] = Some("a@b.com")
        /\ hs[h].pc = "done"

\* C10: the end-to-end scenario.  For the incoming, pending event with content
\* "Oi", conversation 42 with empty custom attributes, sender 7 named "Ana",
\* account 1, and the agent answering "Olá!" with no end of interaction, the
\* handler issues the custom_attributes call for conversation 42 setting the
\* flag, queries the agent with "Oi Meu nome é Ana ", posts one public message
\* "Olá!" to conversation 42 and answers 200 success.  (The code puts no space
\* between the content and the name clause, so this fails.)
C10Event ==
    [content |-> Some("Oi"), message_type |-> Some("incoming"),
     conversation |-> [id |-> Some(42), status |-> Some("pending"),
                       custom_attributes |-> EmptyDict],
     sender |-> [id |-> Some(7), name |-> Some("Ana")],
     account |-> [id |-> Some(1)]]

C10_Scenario ==
    \A h \in Handlers :
        LET r == hs[h]
        IN  (r.pc = "done" /\ r.request_data = Some(C10Event)
               /\ r.response_text = Some("Olá!") /\ ~r.end_interaction)
                => /\ Len(r.calls) = 3
                   /\ r.calls[1].kind = "custom_attributes"
                   /\ r.calls[1].url = UrlOf("1", "42", "custom_attributes")
                   /\ r.calls[1].payload =
                          [custom_attributes |-> [user_meta_sent_dialogflow |-> TRUE]]
                   /\ r.calls[2].kind = "detect_intent"
                   /\ r.calls[2].text = Some("Oi Meu nome é Ana ")
                   /\ r.calls[3].kind = "messages"
                   /\ r.calls[3].url = UrlOf("1", "42", "messages")
                   /\ r.calls[3].payload.content = "Olá!"
                   /\ r.calls[3].payload.private = FALSE
                   /\ r.response = Some([code |-> 200, body |-> [status |-> "success"]])

\* C11 (as claimed): an agent result with no response messages at all gives
\* reply_text = the fallback apology and should_escalate = false.  (With an
\* execution_summary parameter the reply is that summary, so this fails.)
C11_NoMessagesFallback ==
    (Parsed /\ ParsedMsgs = <<>>)
        => /\ backend.result[1].response_text = "Desculpe, não entendi."
           /\ backend.result[1].end_interaction = FALSE

\* C11 (amended): an agent result with no response messages gives
\* should_escalate = false, and reply_text = the execution_summary parameter
\* when the result has one, the fallback apology otherwise.
C11_NoMessagesSummaryOrFallback ==
    (Parsed /\ ParsedMsgs = <<>>)
        => /\ backend.result[1].raised = ""
           /\ backend.result[1].end_interaction = FALSE
           /\ ParsedHasSummary
                  => backend.result[1].response_text = ParsedQR["parameters"]["execution_summary"]
           /\ ~ParsedHasSummary
                  => backend.result[1].response_text = "Desculpe, não entendi."

C11_Witness ==
    /\ Parsed /\ ParsedMsgs = <<>> /\ ~ParsedHasSummary
    /\ "parameters" \in DOMAIN ParsedQR
    /\ backend.result[1].response_text = "Desculpe, não entendi."
    /\ ~backend.result[1].end_interaction

\* C18: should_escalate is true iff the first response message carries the
\* end-interaction marker; a marker on a later message only, or no response
\* message, gives false.
C18_EscalateIffFirstMarker ==
    Parsed
        => /\ (ParsedMsgs # <<>> /\ MsgHasMarker(ParsedMsgs[1]))
                  => backend.result[1].end_interaction = TRUE
           /\ (ParsedMsgs # <<>> /\ ~MsgHasMarker(ParsedMsgs[1]))
                  => backend.result[1].end_interaction = FALSE
           /\ ParsedMsgs = <<>> => backend.result[1].end_interaction = FALSE

C18_Witness ==
    /\ Parsed /\ Len(ParsedMsgs) >= 2
    /\ ~MsgHasMarker(ParsedMsgs[1]) /\ MsgHasMarker(ParsedMsgs[2])
    /\ backend.result[1].end_interaction = FALSE

\* C19: reply_text is the first text segment of the first response message when
\* that message has text; otherwise the execution_summary parameter when the
\* result has one; otherwise the fallback apology.  Text of later messages is
\* never used and execution_summary never replaces a text of the first message.
C19_ReplyTextPrecedence ==
    Parsed
        => LET text == backend.result[1].response_text
               first_has_text == ParsedMsgs # <<>> /\ MsgHasText(ParsedMsgs[1])
           IN  /\ first_has_text => text = ParsedMsgs[1]["text"]["text"][1]
               /\ (~first_has_text /\ ParsedHasSummary)
                      => text = ParsedQR["parameters"]["execution_summary"]
               /\ (~first_has_text /\ ~ParsedHasSummary)
                      => text = "Desculpe, não entendi."

C19_Witness ==
    /\ Parsed /\ Len(ParsedMsgs) >= 2
    /\ ~MsgHasText(ParsedMsgs[1]) /\ MsgHasText(ParsedMsgs[2])
    /\ ParsedHasSummary
    /\ backend.result[1].response_text = "Resumo"

\* C13: the flag-setting custom_attributes call is issued only for an event
\* whose enriched text is delivered to the agent: the event is eligible and its
\* agent query, carrying the enriched text, is issued and returns a result.
\* (The call is issued before the eligibility test and before the query, so
\* this fails.)
C13_FlagOnlyWithDeliveredText ==
    \A h \in Handlers :
        \A a \in CallsOfKind(h, "custom_attributes") :
            /\ EventEligible(Event(h))
            /\ hs[h].pc = "done"
                   => \E q \in CallsOfKind(h, "detect_intent") :
                          /\ a < q
                          /\ hs[h].calls[q].text = hs[h].message
                          /\ hs[h].calls[q].ret = Some(200)

\* C14: the remote calls of one event are issued one after the other in the
\* order custom_attributes, detect_intent, messages, toggle_status; a call is
\* issued only when every earlier one has returned, and the handler is blocked
\* while its last call is outstanding.
C14Rank(k) ==
    CASE k = "custom_attributes" -> 1
      [] k = "detect_intent" -> 2
      [] k = "messages" -> 3
      [] k = "toggle_status" -> 4

C14_SequentialCalls ==
    \A h \in Handlers :
        LET calls == hs[h].calls
        IN  /\ \A i, j \in 1..Len(calls) :
                   i < j => /\ C14Rank(calls[i].kind) < C14Rank(calls[j].kind)
                            /\ calls[i].ret # None
            /\ \A i \in 1..Len(calls) :
                   calls[i].ret = None
                       => /\ i = Len(calls)
                          /\ hs[h].pc \in {"attr", "query", "post", "toggle"}
            /\ hs[h].pc \in {"attr", "query", "post", "toggle"}
                   => (calls # <<>> /\ calls[Len(calls)].ret = None)

C14_Witness ==
    \E h \in Handlers :
        /\ hs[h].pc = "done"
        /\ Len(hs[h].calls) = 4
        /\ hs[h].calls[1].kind = "custom_attributes"
        /\ hs[h].calls[4].kind = "toggle_status"

\* C15: when the agent query fails (detect_intent raises, or the response has
\* no queryResult), the failure leaves the handler: no message post, no status
\* toggle, no second query, and no 200 success.
C15_QueryFailurePropagates ==
    \A h \in Handlers :
        QueryFailed(h)
            => /\ CallsOfKind(h, "messages") = {}
               /\ CallsOfKind(h, "toggle_status") = {}
               /\ Cardinality(CallsOfKind(h, "detect_intent")) = 1
               /\ hs[h].pc = "done"
               /\ hs[h].response # None
               /\ hs[h].response[1].code # 200

C15_Witness ==
    \E h \in Handlers :
        /\ QueryFailed(h)
        /\ hs[h].pc = "done"
        /\ hs[h].response = Some(Unhandled500)
        /\ CallsOfKind(h, "custom_attributes") # {}

\* C12: for every conversation the flag-setting custom_attributes call is issued
\* once and never a second time, whatever the sequence or interleaving of the
\* conversation's events.  (Two invocations that both read the flag as unset
\* both issue the call; so does a later event when the first call was not
\* applied.)
C12_FlagCallAtMostOnce ==
    \A c \in Convs : hist.flagCalls[c] <= 1

\* the invocation h has its flag-setting call in flight for conversation c
FlagCallInFlight(h, c) ==
    /\ hs[h].pc = "attr"
    /\ conversation(Event(h)) = Some(c)

\* the invocation h has read the flag as unset and has enriched: it has issued
\* the flag-setting call and its text for the agent is longer than the content
Enriched(h) ==
    /\ ~EventFlagSet(Event(h))
    /\ CallsOfKind(h, "custom_attributes") # {}
    /\ hs[h].message # Event(h)["content"]
    /\ \A i \in CallsOfKind(h, "detect_intent") : hs[h].calls[i].text = hs[h].message

\* C16: nothing excludes a second invocation while a first one has read the
\* flag as unset and waits for its flag-setting call: as long as Chatwoot has
\* not applied the flag, an event of the same conversation is taken up by a
\* free invocation, which enriches its text and issues the flag-setting call
\* too; and every invocation that has read the flag as unset has enriched.
C16_EnrichmentRace ==
    /\ \A h \in Handlers :
           (hs[h].pc # "idle" /\ ~EventFlagSet(Event(h))) => Enriched(h)
    /\ \A h, g \in Handlers : \A c \in Convs :
           ( /\ h # g /\ FlagCallInFlight(h, c) /\ hs[g].pc = "idle"
             /\ ~convFlag[c] /\ nEvents < MaxEvents )
               => \A d \in ConcEventsOf(c) :
                      /\ ENABLED Receive(g, Some(d))
                      /\ ~EventFlagSet(d)
                      /\ Start(Some(d)).pc = "attr"
                      /\ Start(Some(d)).message # d["content"]

C16_Witness ==
    \E c \in Convs : \E h, g \in Handlers :
        /\ h # g /\ hs[h].pc # "idle" /\ hs[g].pc # "idle"
        /\ conversation(Event(h)) = Some(c) /\ conversation(Event(g)) = Some(c)
        /\ Enriched(h) /\ Enriched(g)
        /\ CallsOfKind(h, "detect_intent") # {} /\ CallsOfKind(g, "detect_intent") # {}
        /\ hs[h].message = Some("OiMeu nome é Ana ")
        /\ hs[g].message = Some("OiMeu nome é Ana ")
        /\ hist.flagCalls[c] = 2

\* C17: once the toggle_status call to open has been issued for a conversation,
\* no step issues an agent query or a public message for that conversation.
\* (An invocation that took its event while the conversation was pending goes
\* on to query and reply after another invocation's toggle; and a toggle that
\* Chatwoot did not apply leaves the conversation pending.)
C17_NoBotActionAfterToggle ==
    [][ \A c \in Convs :
          hist.toggles[c] > 0 =>
            \A h \in Handlers :
              \A i \in (Len(hs[h].calls) + 1)..Len(hs'[h].calls) :
                conversation(hs'[h].request_data[1]) = Some(c) =>
                  /\ hs'[h].calls[i].kind # "detect_intent"
                  /\ hs'[h].calls[i].kind = "messages"
                        => hs'[h].calls[i].payload.private ]_vars

====
